---- MODULE Spec2Model ----
(***************************************************************************)
(* docs/take_screenshots.py: the walkthrough that drives the Gantty app    *)
(* through a browser and saves the nine screenshots of the user manual.    *)
(*                                                                         *)
(* The script is one function, main(), a flat list of statements with      *)
(* `if locator.count() > k:` blocks and one `for task in tasks:` loop.     *)
(* Script below is that list, statement by statement, with the source      *)
(* line, the indentation depth relative to the body of the `with` block,   *)
(* the call made and its literal argument.  The actions interpret it the   *)
(* way Python does: fall through, skip an `if` block whose test is false,  *)
(* iterate the `for`, and unwind through the `with` block when a call      *)
(* raises.                                                                 *)
(*                                                                         *)
(* The Japanese literals of the source are written in ASCII here:          *)
(*   AddTask = the add-task button text, WebsiteRenewal .. Release = the   *)
(*   six task names, ReqDef/Wireframe/Sitemap = the three subtask names,   *)
(*   TanakaTaro = the member name.                                         *)
(***************************************************************************)
EXTENDS Naturals, Integers, Sequences, FiniteSets

VARIABLES
    status,      \* "NotStarted" | "Running" | "Completed" | "Failed"
    pc,          \* index in Script of the statement to execute next
    i,           \* number of items the `for` loop has taken from tasks
    failedAt,    \* step index at which an exception was raised, 0 if none
    scope,       \* "none" | "with" | "left": position relative to the with block
    playwright,  \* "none" | "started" | "stopped"
    browser,     \* "none" | "open" | "closed"
    page,        \* "none" | "blank" | "loaded"
    files,       \* paths written by page.screenshot, in order
    out,         \* lines printed on stdout, in order
    err,         \* lines on stderr (the traceback of an uncaught exception)
    exitCode,    \* -1 while the process runs, then its exit status
    buffer,      \* texts typed on the keyboard since the last key press
    submitted,   \* texts typed and then confirmed with Enter, in order
    interacted,  \* TRUE once any click, typing, key press or fill was done
    lastGuard,   \* the most recent `if locator.count() > k` evaluation
    sinceGuard,  \* calls completed since that evaluation
    skipped      \* number of `if` blocks skipped so far

vars == <<status, pc, i, failedAt, scope, playwright, browser, page, files, out,
          err, exitCode, buffer, submitted, interacted, lastGuard, sinceGuard,
          skipped>>

\* A selector tested with `count() > k` is taken to match 0 .. k + MaxOver
\* elements of the page.
MaxOver == 1

S(line, depth, op, arg, k) ==
    [line |-> line, depth |-> depth, op |-> op, arg |-> arg, k |-> k]

\* with sync_playwright() as p: launch, new page, open the app (lines 8-15)
Setup == <<
    S(8, 0, "with_enter", "sync_playwright", 0),
    S(9, 0, "launch", "chromium", 0),
    S(10, 0, "new_page", "1280x800", 0),
    S(13, 0, "goto", "http://localhost:1420", 0),
    S(14, 0, "wait_for_load_state", "networkidle", 0),
    S(15, 0, "sleep", "1", 0)
>>

\* 1. Initial empty state - List View (lines 18-19)
Capture01 == <<
    S(18, 0, "print", "Taking screenshot: 01_empty_list_view.png", 0),
    S(19, 0, "screenshot", "01_empty_list_view.png", 0)
>>

\* Add first task (lines 25-31)
AddFirstTask == <<
    S(25, 0, "locator", "add_button", 0),
    S(26, 0, "count", "add_button", 0),
    S(27, 1, "click", "add_button", 0),
    S(28, 1, "wait_for_timeout", "300", 0),
    S(29, 1, "type", "WebsiteRenewal", 0),
    S(30, 1, "press", "Enter", 0),
    S(31, 1, "wait_for_timeout", "500", 0)
>>

\* Add more tasks for a realistic project (lines 34-49)
AddMoreTasks == <<
    S(34, 0, "assign", "tasks", 0),
    S(42, 0, "for", "task", 0),
    S(43, 1, "locator", "add_button", 0),
    S(44, 1, "count", "add_button", 0),
    S(45, 2, "click", "add_button", 0),
    S(46, 2, "wait_for_timeout", "300", 0),
    S(47, 2, "type", "task", 0),
    S(48, 2, "press", "Enter", 0),
    S(49, 2, "wait_for_timeout", "300", 0)
>>

\* 2. List view with tasks (lines 52-53)
Capture02 == <<
    S(52, 0, "print", "Taking screenshot: 02_list_view_with_tasks.png", 0),
    S(53, 0, "screenshot", "02_list_view_with_tasks.png", 0)
>>

\* Add subtasks to the second task (index 1) (lines 57-69)
AddSubtasks == <<
    S(57, 0, "locator", "subtask_buttons", 0),
    S(58, 0, "count", "subtask_buttons", 1),
    S(59, 1, "click", "subtask_buttons.nth(1)", 0),
    S(60, 1, "wait_for_timeout", "300", 0),
    S(61, 1, "type", "ReqDef", 0),
    S(62, 1, "press", "Enter", 0),
    S(63, 1, "wait_for_timeout", "300", 0),
    S(64, 1, "type", "Wireframe", 0),
    S(65, 1, "press", "Enter", 0),
    S(66, 1, "wait_for_timeout", "300", 0),
    S(67, 1, "type", "Sitemap", 0),
    S(68, 1, "press", "Escape", 0),
    S(69, 1, "wait_for_timeout", "500", 0)
>>

\* 3. List view with hierarchy (lines 72-73)
Capture03 == <<
    S(72, 0, "print", "Taking screenshot: 03_list_view_hierarchy.png", 0),
    S(73, 0, "screenshot", "03_list_view_hierarchy.png", 0)
>>

\* Click on a task to open detail panel (lines 76-79)
OpenTaskDetail == <<
    S(76, 0, "locator", "task_items", 0),
    S(77, 0, "count", "task_items", 0),
    S(78, 1, "click", "task_items.first", 0),
    S(79, 1, "wait_for_timeout", "500", 0)
>>

\* 4. Task detail panel (lines 82-83)
Capture04 == <<
    S(82, 0, "print", "Taking screenshot: 04_task_detail_panel.png", 0),
    S(83, 0, "screenshot", "04_task_detail_panel.png", 0)
>>

\* Set dates for some tasks via detail panel (lines 86-94)
SetStartDate == <<
    S(86, 0, "locator", "start_date_input", 0),
    S(87, 0, "count", "start_date_input", 0),
    S(88, 1, "click", "start_date_input", 0),
    S(89, 1, "wait_for_timeout", "300", 0),
    S(91, 1, "locator", "day_buttons", 0),
    S(92, 1, "count", "day_buttons", 5),
    S(93, 2, "click", "day_buttons.nth(5)", 0),
    S(94, 2, "wait_for_timeout", "300", 0)
>>

\* Close detail panel if open (lines 97-100)
CloseDetailPanel == <<
    S(97, 0, "locator", "close_button", 0),
    S(98, 0, "count", "close_button", 0),
    S(99, 1, "click", "close_button.first", 0),
    S(100, 1, "wait_for_timeout", "300", 0)
>>

\* Switch to Gantt View (lines 103-106)
SwitchToGantt == <<
    S(103, 0, "locator", "gantt_button", 0),
    S(104, 0, "count", "gantt_button", 0),
    S(105, 1, "click", "gantt_button", 0),
    S(106, 1, "wait_for_timeout", "1000", 0)
>>

\* 5. Gantt view (lines 109-110)
Capture05 == <<
    S(109, 0, "print", "Taking screenshot: 05_gantt_view.png", 0),
    S(110, 0, "screenshot", "05_gantt_view.png", 0)
>>

\* Switch to Kanban View (lines 113-116)
SwitchToKanban == <<
    S(113, 0, "locator", "kanban_button", 0),
    S(114, 0, "count", "kanban_button", 0),
    S(115, 1, "click", "kanban_button", 0),
    S(116, 1, "wait_for_timeout", "1000", 0)
>>

\* 6. Kanban view (lines 119-120)
Capture06 == <<
    S(119, 0, "print", "Taking screenshot: 06_kanban_view.png", 0),
    S(120, 0, "screenshot", "06_kanban_view.png", 0)
>>

\* Switch to Network View (lines 123-126)
SwitchToNetwork == <<
    S(123, 0, "locator", "network_button", 0),
    S(124, 0, "count", "network_button", 0),
    S(125, 1, "click", "network_button", 0),
    S(126, 1, "wait_for_timeout", "1000", 0)
>>

\* 7. Network view (lines 129-130)
Capture07 == <<
    S(129, 0, "print", "Taking screenshot: 07_network_view.png", 0),
    S(130, 0, "screenshot", "07_network_view.png", 0)
>>

\* Go back to list view for member management (lines 133-136)
SwitchToList == <<
    S(133, 0, "locator", "list_button", 0),
    S(134, 0, "count", "list_button", 0),
    S(135, 1, "click", "list_button", 0),
    S(136, 1, "wait_for_timeout", "500", 0)
>>

\* Open member management dialog (lines 139-142)
OpenMemberDialog == <<
    S(139, 0, "locator", "member_button", 0),
    S(140, 0, "count", "member_button", 0),
    S(141, 1, "click", "member_button", 0),
    S(142, 1, "wait_for_timeout", "500", 0)
>>

\* 8. Member management dialog (lines 145-146)
Capture08 == <<
    S(145, 0, "print", "Taking screenshot: 08_member_dialog.png", 0),
    S(146, 0, "screenshot", "08_member_dialog.png", 0)
>>

\* Add a member (lines 149-156)
AddMember == <<
    S(149, 0, "locator", "add_member", 0),
    S(150, 0, "count", "add_member", 0),
    S(151, 1, "click", "add_member", 0),
    S(152, 1, "wait_for_timeout", "300", 0),
    S(153, 1, "locator", "name_input", 0),
    S(154, 1, "count", "name_input", 0),
    S(155, 2, "fill", "TanakaTaro", 0),
    S(156, 2, "wait_for_timeout", "300", 0)
>>

\* Close dialog (lines 159-162)
CloseDialog == <<
    S(159, 0, "locator", "close_buttons", 0),
    S(160, 0, "count", "close_buttons", 0),
    S(161, 1, "click", "close_buttons.first", 0),
    S(162, 1, "wait_for_timeout", "300", 0)
>>

\* Open status management dialog (lines 165-168)
OpenStatusDialog == <<
    S(165, 0, "locator", "status_button", 0),
    S(166, 0, "count", "status_button", 0),
    S(167, 1, "click", "status_button", 0),
    S(168, 1, "wait_for_timeout", "500", 0)
>>

\* 9. Status management dialog (lines 171-172)
Capture09 == <<
    S(171, 0, "print", "Taking screenshot: 09_status_dialog.png", 0),
    S(172, 0, "screenshot", "09_status_dialog.png", 0)
>>

\* browser.close() and the success message (lines 174-175)
Finish == <<
    S(174, 0, "browser_close", "browser", 0),
    S(175, 0, "print", "All screenshots taken successfully!", 0)
>>

\* Variant: the first capture placed after the first task is added.
ScriptCaptureLate ==
    Setup \o AddFirstTask \o Capture01 \o AddMoreTasks
    \o Capture02 \o AddSubtasks \o Capture03 \o OpenTaskDetail
    \o Capture04 \o SetStartDate \o CloseDetailPanel \o SwitchToGantt
    \o Capture05 \o SwitchToKanban \o Capture06 \o SwitchToNetwork
    \o Capture07 \o SwitchToList \o OpenMemberDialog \o Capture08
    \o AddMember \o CloseDialog \o OpenStatusDialog \o Capture09
    \o Finish

\* The body of main(), in source order.
Script ==
    Setup \o Capture01 \o AddFirstTask \o AddMoreTasks
    \o Capture02 \o AddSubtasks \o Capture03 \o OpenTaskDetail
    \o Capture04 \o SetStartDate \o CloseDetailPanel \o SwitchToGantt
    \o Capture05 \o SwitchToKanban \o Capture06 \o SwitchToNetwork
    \o Capture07 \o SwitchToList \o OpenMemberDialog \o Capture08
    \o AddMember \o CloseDialog \o OpenStatusDialog \o Capture09
    \o Finish

N == Len(Script)

\* The list literal of lines 34-40.
tasks == <<"PlanningDesign", "DesignProduction", "Development", "Testing", "Release">>

\* The statement the program is at.
Cur == Script[pc]

(***************************************************************************)
(* Control flow of the statement list.                                     *)
(***************************************************************************)

\* First statement after the block that statement k opens: the next one
\* that is not indented deeper than k.
EndOfBlock(k) ==
    CHOOSE j \in (k + 1)..(N + 1) :
        /\ j = N + 1 \/ Script[j].depth <= Script[k].depth
        /\ \A m \in (k + 1)..(j - 1) : Script[m].depth > Script[k].depth

\* The `for task in tasks:` statement and the extent of its body.
ForHead == CHOOSE k \in 1..N : Script[k].op = "for"

LoopExit == EndOfBlock(ForHead)

BodyLen == LoopExit - ForHead - 1

InLoop(k) == k > ForHead /\ k < LoopExit

\* Where control goes from statement k when it would continue at target:
\* leaving the body of the loop returns to the `for` statement.
Continue(k, target) ==
    IF InLoop(k) /\ target >= LoopExit THEN ForHead ELSE target

\* Position of (statement p, iteration it) in the run's declaration order,
\* every iteration of the loop counted as steps of its own.
StepIndex(p, it) ==
    IF p < ForHead THEN p
    ELSE IF p = ForHead THEN ForHead + it * (BodyLen + 1)
    ELSE IF p < LoopExit THEN ForHead + (it - 1) * (BodyLen + 1) + (p - ForHead)
    ELSE p + Len(tasks) * (BodyLen + 1)

\* The statement that step s of the run executes (inverse of StepIndex).
StmtOf(s) ==
    IF s < ForHead THEN s
    ELSE IF s <= ForHead + Len(tasks) * (BodyLen + 1)
        THEN ForHead + ((s - ForHead) % (BodyLen + 1))
    ELSE s - Len(tasks) * (BodyLen + 1)

\* Variant: the test written `>=`.
GuardPassesGe(n, k) == n >= k

\* Variant: every test written `> 0`, also where the element used is nth(k).
GuardPassesAny(n, k) == n > 0

\* The test of `if locator.count() > k:`.
GuardPasses(n, k) == n > k

\* Calls into Playwright: each may raise (timeout, navigation error,
\* closed target, strict-mode violation).
Raising ==
    {"with_enter", "launch", "new_page", "goto", "wait_for_load_state",
     "screenshot", "count", "click", "wait_for_timeout", "type", "press",
     "fill", "browser_close"}

\* Variant: the loop variable quoted, so that its name is typed.
TypedTextLiteral == Cur.arg

\* The text page.keyboard.type is given: a literal, or the loop variable.
TypedText == IF Cur.arg = "task" THEN tasks[i] ELSE Cur.arg

NoGuard == [line |-> 0, step |-> 0, depth |-> 0, n |-> 0, k |-> 0, passed |-> FALSE]

Init ==
    /\ status = "NotStarted"
    /\ pc = 1
    /\ i = 0
    /\ failedAt = 0
    /\ scope = "none"
    /\ playwright = "none"
    /\ browser = "none"
    /\ page = "none"
    /\ files = <<>>
    /\ out = <<>>
    /\ err = <<>>
    /\ exitCode = -1
    /\ buffer = <<>>
    /\ submitted = <<>>
    /\ interacted = FALSE
    /\ lastGuard = NoGuard
    /\ sinceGuard = <<>>
    /\ skipped = 0

\* The statement at pc is a call of kind op and the run has not stopped.
At(op) == status = "Running" /\ pc <= N /\ Cur.op = op

\* The statement at pc returns: control moves to target.
Return(target) ==
    /\ pc' = Continue(pc, target)
    /\ status' = IF Continue(pc, target) > N THEN "Completed" ELSE status
    /\ failedAt' = failedAt

\* A statement that is not an `if` test completed.
Done == 
    /\ Return(pc + 1)
    /\ sinceGuard' = Append(sinceGuard, Cur.op)
    /\ UNCHANGED <<lastGuard, skipped, err, exitCode>>

(***************************************************************************)
(* The statements.                                                         *)
(***************************************************************************)

\* if __name__ == "__main__": main()
Start ==
    /\ status = "NotStarted"
    /\ status' = "Running"
    /\ UNCHANGED <<pc, i, failedAt, scope, playwright, browser, page, files, out,
                   err, exitCode, buffer, submitted, interacted, lastGuard,
                   sinceGuard, skipped>>

\* with sync_playwright() as p:
WithEnter ==
    /\ At("with_enter")
    /\ playwright' = "started"
    /\ scope' = "with"
    /\ Done
    /\ UNCHANGED <<i, browser, page, files, out, buffer, submitted, interacted>>

\* browser = p.chromium.launch(headless=True)
Launch ==
    /\ At("launch")
    /\ browser' = "open"
    /\ Done
    /\ UNCHANGED <<i, scope, playwright, page, files, out, buffer, submitted,
                   interacted>>

\* page = browser.new_page(viewport=...)
NewPage ==
    /\ At("new_page")
    /\ page' = "blank"
    /\ Done
    /\ UNCHANGED <<i, scope, playwright, browser, files, out, buffer, submitted,
                   interacted>>

\* page.goto('http://localhost:1420')
Goto ==
    /\ At("goto")
    /\ page' = "loaded"
    /\ Done
    /\ UNCHANGED <<i, scope, playwright, browser, files, out, buffer, submitted,
                   interacted>>

\* page.wait_for_load_state('networkidle')
WaitForLoadState ==
    /\ At("wait_for_load_state")
    /\ Done
    /\ UNCHANGED <<i, scope, playwright, browser, page, files, out, buffer,
                   submitted, interacted>>

\* time.sleep(1)
Sleep ==
    /\ At("sleep")
    /\ Done
    /\ UNCHANGED <<i, scope, playwright, browser, page, files, out, buffer,
                   submitted, interacted>>

\* print(...)
PrintLine ==
    /\ At("print")
    /\ out' = Append(out, Cur.arg)
    /\ Done
    /\ UNCHANGED <<i, scope, playwright, browser, page, files, buffer, submitted,
                   interacted>>

\* Variant: the capture made part of the conditional block before it, so
\* that it is taken only when that block's element was found.
ScreenshotIfFound ==
    /\ At("screenshot")
    /\ files' = IF lastGuard.line = 0 \/ lastGuard.passed
                  THEN Append(files, Cur.arg) ELSE files
    /\ Done
    /\ UNCHANGED <<i, scope, playwright, browser, page, out, buffer, submitted,
                   interacted>>

\* page.screenshot(path='docs/images/...')
Screenshot ==
    /\ At("screenshot")
    /\ files' = Append(files, Cur.arg)
    /\ Done
    /\ UNCHANGED <<i, scope, playwright, browser, page, out, buffer, submitted,
                   interacted>>

\* x = page.locator(...): builds the locator, queries nothing
Locator ==
    /\ At("locator")
    /\ Done
    /\ UNCHANGED <<i, scope, playwright, browser, page, files, out, buffer,
                   submitted, interacted>>

\* tasks = [...]
Assign ==
    /\ At("assign")
    /\ Done
    /\ UNCHANGED <<i, scope, playwright, browser, page, files, out, buffer,
                   submitted, interacted>>

\* for task in tasks: take the next item, or leave the loop when there is none
ForNext ==
    /\ At("for")
    /\ IF i < Len(tasks)
         THEN i' = i + 1 /\ Return(pc + 1)
         ELSE i' = i /\ Return(EndOfBlock(pc))
    /\ sinceGuard' = Append(sinceGuard, Cur.op)
    /\ UNCHANGED <<lastGuard, skipped, err, exitCode, scope, playwright, browser,
                   page, files, out, buffer, submitted, interacted>>

\* if x.count() > k: the page reports n matching elements
Count ==
    /\ At("count")
    /\ \E n \in 0..(Cur.k + MaxOver) :
        /\ lastGuard' = [line |-> Cur.line, step |-> StepIndex(pc, i),
                         depth |-> Cur.depth, n |-> n, k |-> Cur.k,
                         passed |-> GuardPasses(n, Cur.k)]
        /\ IF GuardPasses(n, Cur.k)
             THEN Return(pc + 1) /\ skipped' = skipped
             ELSE Return(EndOfBlock(pc)) /\ skipped' = skipped + 1
    /\ sinceGuard' = <<>>
    /\ UNCHANGED <<i, err, exitCode, scope, playwright, browser, page, files, out,
                   buffer, submitted, interacted>>

\* x.click(), x.first.click(), x.nth(j).click()
Click ==
    /\ At("click")
    /\ interacted' = TRUE
    /\ Done
    /\ UNCHANGED <<i, scope, playwright, browser, page, files, out, buffer,
                   submitted>>

\* page.wait_for_timeout(ms)
WaitForTimeout ==
    /\ At("wait_for_timeout")
    /\ Done
    /\ UNCHANGED <<i, scope, playwright, browser, page, files, out, buffer,
                   submitted, interacted>>

\* page.keyboard.type(text)
KeyboardType ==
    /\ At("type")
    /\ buffer' = Append(buffer, TypedText)
    /\ interacted' = TRUE
    /\ Done
    /\ UNCHANGED <<i, scope, playwright, browser, page, files, out, submitted>>

\* page.keyboard.press('Enter') confirms what was typed, 'Escape' drops it
KeyboardPress ==
    /\ At("press")
    /\ submitted' = IF Cur.arg = "Enter" THEN submitted \o buffer ELSE submitted
    /\ buffer' = <<>>
    /\ interacted' = TRUE
    /\ Done
    /\ UNCHANGED <<i, scope, playwright, browser, page, files, out>>

\* name_input.fill(value)
Fill ==
    /\ At("fill")
    /\ interacted' = TRUE
    /\ Done
    /\ UNCHANGED <<i, scope, playwright, browser, page, files, out, buffer,
                   submitted>>

\* browser.close()
BrowserClose ==
    /\ At("browser_close")
    /\ browser' = "closed"
    /\ page' = "none"
    /\ Done
    /\ UNCHANGED <<i, scope, playwright, files, out, buffer, submitted,
                   interacted>>

\* Variant: the exception is caught and ignored, the run goes on with the
\* next statement.
ThrowIgnored ==
    /\ status = "Running" /\ pc <= N /\ Cur.op \in Raising
    /\ failedAt' = StepIndex(pc, i)
    /\ pc' = Continue(pc, pc + 1)
    /\ status' = IF Continue(pc, pc + 1) > N THEN "Completed" ELSE status
    /\ UNCHANGED <<i, scope, playwright, browser, page, files, out, err,
                   exitCode, buffer, submitted, interacted, lastGuard,
                   sinceGuard, skipped>>

\* Variant: the call that raised is tried again.
ThrowRetries ==
    /\ status = "Running" /\ pc <= N /\ Cur.op \in Raising
    /\ failedAt' = StepIndex(pc, i)
    /\ UNCHANGED <<status, pc, i, scope, playwright, browser, page, files, out,
                   err, exitCode, buffer, submitted, interacted, lastGuard,
                   sinceGuard, skipped>>

\* Variant: an exception inside an `if` block is caught around the block,
\* the rest of the block is skipped and the run goes on.
ThrowSkipsBlock ==
    /\ status = "Running" /\ pc <= N /\ Cur.op \in Raising
    /\ failedAt' = StepIndex(pc, i)
    /\ IF Cur.depth = 0
         THEN status' = "Failed" /\ pc' = pc
         ELSE LET end == CHOOSE j \in (pc + 1)..(N + 1) :
                            /\ j = N + 1 \/ Script[j].depth < Cur.depth
                            /\ \A m \in (pc + 1)..(j - 1) :
                                  Script[m].depth >= Cur.depth
              IN  status' = status /\ pc' = Continue(pc, end)
    /\ UNCHANGED <<i, scope, playwright, browser, page, files, out, err,
                   exitCode, buffer, submitted, interacted, lastGuard,
                   sinceGuard, skipped>>

\* The call at pc raises. Nothing in main() catches: the statement has no
\* effect and the exception starts to propagate.
Throw ==
    /\ status = "Running" /\ pc <= N /\ Cur.op \in Raising
    /\ status' = "Failed"
    /\ failedAt' = StepIndex(pc, i)
    /\ UNCHANGED <<pc, i, scope, playwright, browser, page, files, out, err,
                   exitCode, buffer, submitted, interacted, lastGuard,
                   sinceGuard, skipped>>

\* Variant: Playwright started without the with statement, nothing is
\* stopped when the function is left.
WithExitNoRelease ==
    /\ scope = "with"
    /\ status \in {"Completed", "Failed"}
    /\ scope' = "left"
    /\ UNCHANGED <<status, pc, i, failedAt, playwright, browser, page, files,
                   out, err, exitCode, buffer, submitted, interacted, lastGuard,
                   sinceGuard, skipped>>

\* Leaving the with block, by falling off its end or by an exception:
\* the context manager stops Playwright, which ends the browser it launched.
WithExit ==
    /\ scope = "with"
    /\ status \in {"Completed", "Failed"}
    /\ scope' = "left"
    /\ playwright' = "stopped"
    /\ browser' = IF browser = "open" THEN "closed" ELSE browser
    /\ page' = "none"
    /\ UNCHANGED <<status, pc, i, failedAt, files, out, err, exitCode, buffer,
                   submitted, interacted, lastGuard, sinceGuard, skipped>>

\* Variant: the exception is caught at the top level and only reported.
ExitStatusZero(st) == 0

\* Exit status of the interpreter: 0 when main() returned, 1 when an
\* exception reached the top level.
ExitStatus(st) == IF st = "Completed" THEN 0 ELSE 1

\* The interpreter ends: an uncaught exception is printed as a traceback.
ProcessExit ==
    /\ status \in {"Completed", "Failed"}
    /\ scope # "with"
    /\ exitCode = -1
    /\ exitCode' = ExitStatus(status)
    /\ err' = IF status = "Failed" THEN Append(err, "Traceback") ELSE err
    /\ UNCHANGED <<status, pc, i, failedAt, scope, playwright, browser, page,
                   files, out, buffer, submitted, interacted, lastGuard,
                   sinceGuard, skipped>>

Next ==
    \/ Start
    \/ WithEnter
    \/ Launch
    \/ NewPage
    \/ Goto
    \/ WaitForLoadState
    \/ Sleep
    \/ PrintLine
    \/ Screenshot
    \/ Locator
    \/ Assign
    \/ ForNext
    \/ Count
    \/ Click
    \/ WaitForTimeout
    \/ KeyboardType
    \/ KeyboardPress
    \/ Fill
    \/ BrowserClose
    \/ Throw
    \/ WithExit
    \/ ProcessExit

Spec == Init /\ [][Next]_vars

\* Every call returns or raises (Playwright bounds each by a timeout), and
\* the interpreter runs the next statement: the run never just stops.
FairSpec == Spec /\ WF_vars(Next)

(***************************************************************************)
(* Vocabulary of the properties.                                           *)
(***************************************************************************)

Range(q) == {q[j] : j \in 1..Len(q)}

RECURSIVE IsSubseq(_, _)
\* a is b with some elements left out, order kept.
IsSubseq(a, b) ==
    IF a = <<>> THEN TRUE
    ELSE IF b = <<>> THEN FALSE
    ELSE IF Head(a) = Head(b) THEN IsSubseq(Tail(a), Tail(b))
    ELSE IsSubseq(a, Tail(b))

CaptureNames ==
    <<"01_empty_list_view.png", "02_list_view_with_tasks.png",
      "03_list_view_hierarchy.png", "04_task_detail_panel.png",
      "05_gantt_view.png", "06_kanban_view.png", "07_network_view.png",
      "08_member_dialog.png", "09_status_dialog.png">>

SuccessMessage == "All screenshots taken successfully!"

SixTasks == <<"WebsiteRenewal">> \o tasks

SubtaskNames == {"ReqDef", "Wireframe", "Sitemap"}

\* Calls that act on the page inside a conditional block.
InteractionOps == {"click", "type", "press", "fill", "wait_for_timeout"}

\* The required steps: navigation, wait for network idle, the captures.
RequiredOps == {"goto", "wait_for_load_state", "screenshot"}

\* What a step of the walkthrough leaves behind.
Effects == <<files, out, buffer, submitted, interacted, i, skipped>>

Raised == failedAt # 0

Exited == exitCode # -1

(***************************************************************************)
(* C1: when the call of a required step (goto, wait_for_load_state, a      *)
(* screenshot) raises, the run is Failed at the index of that step, the    *)
(* program counter stays there, and from then on no click, typing,         *)
(* capture or message is added.                                            *)
(***************************************************************************)
C1_RequiredFailureStopsRun ==
    [][(failedAt' # 0 /\ Script[StmtOf(failedAt')].op \in RequiredOps)
         => /\ status' = "Failed"
            /\ failedAt' = StepIndex(pc, i)
            /\ pc' = pc
            /\ Effects' = Effects]_vars

C1_Witness ==
    /\ Exited
    /\ status = "Failed"
    /\ Script[StmtOf(failedAt)].line = 83
    /\ files = SubSeq(CaptureNames, 1, 3)

(***************************************************************************)
(* C2: while the most recent guard evaluation found zero elements, no      *)
(* click, typing, key press, fill or wait has been performed since, the    *)
(* guard's step has raised nothing, and right after the evaluation the     *)
(* program is at the first step after the block in declaration order.      *)
(***************************************************************************)
C2_ZeroMatchesSkipsBlock ==
    (lastGuard.line # 0 /\ lastGuard.n = 0)
        => /\ ~lastGuard.passed
           /\ Range(sinceGuard) \cap InteractionOps = {}
           /\ failedAt # lastGuard.step
           /\ sinceGuard = <<>> =>
                LET s == StepIndex(pc, i) IN
                /\ s > lastGuard.step
                /\ Script[StmtOf(s)].depth <= lastGuard.depth
                /\ \A t \in (lastGuard.step + 1)..(s - 1) :
                       Script[StmtOf(t)].depth > lastGuard.depth

C2_Witness ==
    /\ lastGuard.line = 87
    /\ lastGuard.n = 0
    /\ status = "Running"
    /\ Cur.line = 98
    /\ skipped >= 2

(***************************************************************************)
(* C3: once the process has ended, after a completed run or after a        *)
(* failure at any step, Playwright is no longer started and the browser    *)
(* is no longer open.                                                      *)
(***************************************************************************)
C3_SessionReleasedAtExit ==
    Exited => (playwright # "started" /\ browser # "open")

C3_Witness ==
    /\ Exited
    /\ status = "Failed"
    /\ playwright = "stopped"
    /\ browser = "closed"
    /\ Script[StmtOf(failedAt)].op = "click"

(***************************************************************************)
(* C4: the exit status is 0 exactly when the run completed with the nine   *)
(* captures taken and the success message printed; a failed run exits      *)
(* non-zero with a message on stderr; the success message is never         *)
(* printed in a run in which a call raised.                                *)
(***************************************************************************)
C4_ExitStatus ==
    /\ Exited =>
        /\ exitCode = 0 <=> /\ status = "Completed"
                            /\ Len(files) = 9
                            /\ SuccessMessage \in Range(out)
        /\ status = "Failed" => (exitCode # 0 /\ err # <<>>)
    /\ Raised => SuccessMessage \notin Range(out)

C4_Witness ==
    /\ exitCode = 0
    /\ err = <<>>
    /\ SuccessMessage \in Range(out)

(***************************************************************************)
(* C5: the files written are always the first captures of the list of      *)
(* nine names, in order and each once, and a completed run has written     *)
(* all nine, whatever conditional blocks were skipped.                     *)
(***************************************************************************)
C5_SameArtifactSet ==
    /\ Len(files) <= Len(CaptureNames)
    /\ files = SubSeq(CaptureNames, 1, Len(files))
    /\ status = "Completed" => files = CaptureNames

C5_Witness ==
    /\ status = "Completed"
    /\ files = CaptureNames
    /\ skipped >= 5
    /\ ~interacted

\* The run is about to take the second capture.
AtSecondCapture == status = "Running" /\ pc <= N /\ Cur.line = 53

(***************************************************************************)
(* C6 as stated: when the second capture is taken, exactly the six named   *)
(* tasks have been entered.                                                *)
(***************************************************************************)
C6_SixTasksBeforeSecondCapture ==
    AtSecondCapture => submitted = SixTasks

(***************************************************************************)
(* C6 as amended: when the second capture is taken, the tasks entered are  *)
(* the six named tasks, in order, less one for each add-task block that    *)
(* was skipped because the add button was not found; they are all six      *)
(* exactly when no block was skipped.                                      *)
(***************************************************************************)
C6_TasksEnteredUnlessSkipped ==
    AtSecondCapture =>
        /\ IsSubseq(submitted, SixTasks)
        /\ Len(submitted) + skipped = Len(SixTasks)
        /\ buffer = <<>>

C6_Witness ==
    /\ AtSecondCapture
    /\ submitted = SixTasks
    /\ skipped = 0

(***************************************************************************)
(* C7: whenever a click, typing or key press has been performed, or a      *)
(* text typed or entered, the first capture has already been written.      *)
(***************************************************************************)
C7_FirstCaptureBeforeInteraction ==
    (interacted \/ buffer # <<>> \/ submitted # <<>>)
        => (files # <<>> /\ files[1] = CaptureNames[1])

C7_Witness ==
    /\ interacted
    /\ submitted = <<"WebsiteRenewal">>
    /\ files = <<CaptureNames[1]>>

(***************************************************************************)
(* C8: while the most recent guard evaluation is the one of the subtask    *)
(* block and it found at most one element, no click and no typing has      *)
(* been performed since, no subtask name was typed, the run has moved on   *)
(* to the hierarchy capture, a failure can only come from the calls        *)
(* after the block, and past the capture the file is written.              *)
(***************************************************************************)
C8_NoSubtaskButtonStillCaptures ==
    (lastGuard.line = 58 /\ lastGuard.n <= 1)
        => /\ Range(sinceGuard) \cap InteractionOps = {}
           /\ Range(buffer \o submitted) \cap SubtaskNames = {}
           /\ failedAt # lastGuard.step
           /\ pc <= N /\ Cur.line >= 72
           /\ status = "Failed" => Cur.line >= 73
           /\ Cur.line > 73 => CaptureNames[3] \in Range(files)

C8_Witness ==
    /\ lastGuard.line = 58
    /\ lastGuard.n = 1
    /\ status = "Running"
    /\ Cur.line = 76
    /\ files = SubSeq(CaptureNames, 1, 3)

(***************************************************************************)
(* C9: the run goes NotStarted -> Running -> Completed | Failed; while     *)
(* Running every transition either fails at the current step or moves to   *)
(* a step of strictly greater index (so no step runs twice and none runs   *)
(* out of order); Completed and Failed are never left; and every run       *)
(* eventually is Completed or Failed.                                      *)
(***************************************************************************)
C9_LinearRun ==
    /\ [][/\ status = "NotStarted" => status' = "Running"
          /\ status = "Running" =>
                \/ /\ status' = "Failed"
                   /\ pc' = pc
                   /\ failedAt' = StepIndex(pc, i)
                \/ /\ status' = IF pc' > N THEN "Completed" ELSE "Running"
                   /\ StepIndex(pc', i') > StepIndex(pc, i)
                   /\ failedAt' = failedAt
          /\ status \in {"Completed", "Failed"} =>
                /\ status' = status
                /\ pc' = pc
                /\ i' = i
                /\ failedAt' = failedAt]_vars
    /\ <>(status \in {"Completed", "Failed"})

C9_Witness ==
    /\ status = "Completed"
    /\ pc = N + 1
    /\ i = Len(tasks)
    /\ Len(submitted) = 3

(***************************************************************************)
(* C10: when an inner action of a conditional block (click, typing, key    *)
(* press, fill, wait) raises, its guard had passed, and the run is Failed  *)
(* at that step: nothing is skipped and no capture or message is added     *)
(* afterwards.  The nested guards (calendar day cell, member name input)   *)
(* are evaluated only after the enclosing guard passed and the click and   *)
(* the wait of the enclosing block completed.                              *)
(***************************************************************************)
C10_InnerFailureAborts ==
    /\ [][(failedAt' # 0 /\ LET st == Script[StmtOf(failedAt')]
                            IN st.depth >= 1 /\ st.op \in InteractionOps)
            => /\ status' = "Failed"
               /\ failedAt' = StepIndex(pc, i)
               /\ pc' = pc
               /\ lastGuard'.passed
               /\ Effects' = Effects]_vars
    /\ [](  (status = "Running" /\ pc <= N /\ Cur.op = "count"
                /\ Cur.arg \in {"day_buttons", "name_input"})
            => /\ lastGuard.passed
               /\ lastGuard.depth < Cur.depth
               /\ lastGuard.line \in {87, 150}
               /\ sinceGuard = <<"click", "wait_for_timeout", "locator">>)

C10_Witness ==
    /\ Exited
    /\ status = "Failed"
    /\ Script[StmtOf(failedAt)].op = "fill"
    /\ lastGuard.line = 154
    /\ lastGuard.passed
    /\ Len(files) = 8

====
